---- MODULE Spec2Model ----
(***************************************************************************)
(* Model of bot.py: the multi-tenant GitHub webhook scoring bot.           *)
(*                                                                         *)
(* The store is PostgreSQL reached through psycopg2 (DATABASE_URL set):    *)
(* every connection runs one transaction at READ COMMITTED, so a statement *)
(* sees the rows committed when it starts, an uncommitted write is kept in *)
(* the writer's transaction until conn.commit(), and a second writer of    *)
(* the same row (or of the same unique key) waits for the first to commit. *)
(*                                                                         *)
(* Cryptographic assumptions: secrets.token_hex(16) never returns a value  *)
(* it returned before, and HMAC-SHA256 is injective in (key, message); a   *)
(* signature is the pair of the key and the body that were signed.         *)
(*                                                                         *)
(* The source creates no schema. ON CONFLICT (guild_id) needs a unique     *)
(* index on repositories.guild_id, so that one exists; whether scores has  *)
(* one on (repo_id, github_username) is not decided by the source and is   *)
(* left open (scoresUnique). The store is taken to be reachable.           *)
(***************************************************************************)
EXTENDS Integers, Sequences, FiniteSets, TLC

\* ---------------------------------------------------------------- bounds
\* worker threads of the web server that run github_webhook concurrently
MaxThreads == 2
\* operations (register calls, webhook requests, leaderboard queries)
\* started in one run
MaxOps == 4
\* register calls in one run
MaxRegs == 2
MaxGuilds == 2

Threads == 1..MaxThreads
Regs == 1..MaxRegs
Guilds == 1..MaxGuilds

\* ---------------------------------------------------------------- inputs
\* the (repo_name, channel) pairs a register call can be given
RepoNames == {"acme/widget", "acme/gadget"}
ChannelOf(name) == IF name = "acme/widget" THEN "general" ELSE "dev"
Users == {"alice", "bob"}
\* route ids of inbound requests: every id the serial can hand out, plus one
RouteIds == 1..(MaxRegs + 1)
\* key 0 is a secret that register never issued
SignKeys == 0..MaxRegs

\* labels the issue-metadata call can return
Labels == {"Hard", "easy", "bug"}

VARIABLES
  repositories,  \* table repositories: a set of rows
  scores,        \* table scores: the rows in insertion order
  scoresUnique,  \* whether the deployed scores table has UNIQUE(repo_id, github_username)
  nextId,        \* the serial behind repositories.id
  issued,        \* how many secrets token_hex has handed out
  reg,           \* the register calls
  req,           \* the request each worker thread is serving
  ops,           \* operations started so far
  board,         \* rows fetched by the leaderboard query that is being answered
  awarded,       \* history: per (repo_id, username), the points handed to update_score
  lastCommit,    \* history: per guild, the register call that committed last
  funcall        \* a function of the program evaluated by itself: argument and result

vars == <<repositories, scores, scoresUnique, nextId, issued, reg, req, ops, board,
          awarded, lastCommit, funcall>>

\* ------------------------------------------------------- pure functions
\* str.lower() on the label names and keywords that occur
Lower(w) ==
  CASE w = "Hard" -> "hard"
    [] w = "HARD" -> "hard"
    [] w = "Medium" -> "medium"
    [] w = "EASY" -> "easy"
    [] w = "Fixes" -> "fixes"
    [] w = "RESOLVED" -> "resolved"
    [] OTHER -> w

\* mutant of PointsFromLabels: the names are compared as they are spelled
PointsFromLabelsCaseSensitive(labels) ==
  IF "hard" \in labels THEN 20
  ELSE IF "medium" \in labels THEN 10
  ELSE IF "easy" \in labels THEN 5
  ELSE 0

\* get_points_from_pr_labels, lines 79-83
PointsFromLabels(labels) ==
  LET names == {Lower(l) : l \in labels}
  IN IF "hard" \in names THEN 20
     ELSE IF "medium" \in names THEN 10
     ELSE IF "easy" \in names THEN 5
     ELSE 0

\* A description is a sequence of tokens: a word, one whitespace character
\* " ", the character "#", or a run of digits.
Keywords == {"close", "closes", "closed", "fix", "fixes", "fixed",
             "resolve", "resolves", "resolved"}
DigitRuns == {"7", "42"}
\* characters that \s matches
Whitespace == {" ", "\t"}
ToInt(d) == IF d = "7" THEN 7 ELSE 42

\* re.search is unanchored: a word matches when it ends with a keyword
EndsWithKeyword(w) == Lower(w) \in Keywords \cup {"prefix"}

\* position i starts a match of  keyword \s # \d+
MatchAt(body, i) ==
  /\ i + 3 <= Len(body)
  /\ EndsWithKeyword(body[i])
  /\ body[i + 1] \in Whitespace
  /\ body[i + 2] = "#"
  /\ body[i + 3] \in DigitRuns

NoIssue == -1

\* mutant of IssueNumberMatch: a description without a match counts as issue 0
IssueNumberMatchDefault(body) ==
  LET hits == {i \in 1..Len(body) : MatchAt(body, i)}
  IN IF hits = {} THEN 0
     ELSE ToInt(body[(CHOOSE i \in hits : \A j \in hits : i <= j) + 3])

\* re.search(...).group(1) as int: the leftmost match, NoIssue when none
IssueNumberMatch(body) ==
  LET hits == {i \in 1..Len(body) : MatchAt(body, i)}
  IN IF hits = {} THEN NoIssue
     ELSE ToInt(body[(CHOOSE i \in hits : \A j \in hits : i <= j) + 3])

\* descriptions: none, a closing keyword with an issue, a keyword directly
\* followed by "#"
Bodies == {
  << >>,
  <<"Fixes", " ", "#", "7">>,
  <<"fixes", "#", "7">> }

\* the parsed request body: action, pull_request (when has_pr) with merged,
\* user.login and body
Payloads ==
  [action : {"closed"}, has_pr : {TRUE}, merged : {TRUE}, login : Users,
   body : {<<"Fixes", " ", "#", "7">>}]
  \cup [action : {"closed"}, has_pr : {TRUE}, merged : {TRUE}, login : {"alice"},
        body : Bodies]
  \cup [action : {"closed"}, has_pr : {TRUE}, merged : {FALSE}, login : {"alice"},
        body : {<<"Fixes", " ", "#", "7">>}]
  \cup [action : {"opened"}, has_pr : {TRUE}, merged : {TRUE}, login : {"alice"},
        body : {<<"Fixes", " ", "#", "7">>}]
  \cup [action : {"closed", "opened"}, has_pr : {FALSE}, merged : {FALSE},
        login : {""}, body : {<< >>}]

NoPayload == [action |-> "", has_pr |-> FALSE, merged |-> FALSE, login |-> "", body |-> << >>]

\* the X-Hub-Signature-256 header: absent, not starting with sha256=, or
\* sha256= followed by the HMAC of a body under a key
Signatures ==
  {[kind |-> "absent", key |-> 0, body |-> ""],
   [kind |-> "malformed", key |-> 0, body |-> ""]}
  \cup [kind : {"sha256"}, key : SignKeys, body : {"raw"}]
  \cup {[kind |-> "sha256", key |-> 1, body |-> "other"]}

NoSignature == [kind |-> "unset", key |-> 0, body |-> ""]

\* mutant of ExpectedSignature: the HMAC is keyed with a constant instead of
\* the tenant's secret
ExpectedSignatureNoKey(secret) == [kind |-> "sha256", key |-> 0, body |-> "raw"]

\* hmac.new(secret, request.data, sha256).hexdigest() with the prefix, lines 175-176
ExpectedSignature(secret) == [kind |-> "sha256", key |-> secret, body |-> "raw"]

\* ------------------------------------------------------------- the store
Admins == {"admin"}

NoRow == [id |-> 0, guild_id |-> 0, repo_name |-> "", webhook_secret |-> 0,
          channel_id |-> "", admin_user_id |-> ""]

\* mutant of RowOfGuild: the statement never meets the guild's row, it is
\* always given a new id
RowOfGuildNone(g) == NoRow

\* the committed row of a guild, NoRow when it has none
RowOfGuild(g) ==
  IF \E row \in repositories : row.guild_id = g
  THEN CHOOSE row \in repositories : row.guild_id = g
  ELSE NoRow

\* mutant of RowOfId: the SELECT has no WHERE clause
RowOfIdAnyRow(id) ==
  IF repositories # {} THEN CHOOSE row \in repositories : TRUE ELSE NoRow

\* SELECT ... FROM repositories WHERE id = %s; fetchone(), lines 161-162
RowOfId(id) ==
  IF \E row \in repositories : row.id = id
  THEN CHOOSE row \in repositories : row.id = id
  ELSE NoRow

\* mutant of Upsert: DO UPDATE SET leaves webhook_secret out
UpsertKeepSecret(rows, new) ==
  IF \E row \in rows : row.guild_id = new.guild_id
  THEN {IF row.guild_id = new.guild_id
        THEN [row EXCEPT !.repo_name = new.repo_name,
                         !.channel_id = new.channel_id,
                         !.admin_user_id = new.admin_user_id]
        ELSE row : row \in rows}
  ELSE rows \cup {new}

\* mutant of Upsert: DO UPDATE SET leaves channel_id out
UpsertKeepChannel(rows, new) ==
  IF \E row \in rows : row.guild_id = new.guild_id
  THEN {IF row.guild_id = new.guild_id
        THEN [row EXCEPT !.repo_name = new.repo_name,
                         !.webhook_secret = new.webhook_secret,
                         !.admin_user_id = new.admin_user_id]
        ELSE row : row \in rows}
  ELSE rows \cup {new}

\* INSERT ... ON CONFLICT (guild_id) DO UPDATE SET ..., lines 98-107, applied
\* to the table: the four EXCLUDED columns replace those of the guild's row,
\* or the new row is added
Upsert(rows, new) ==
  IF \E row \in rows : row.guild_id = new.guild_id
  THEN {IF row.guild_id = new.guild_id
        THEN [row EXCEPT !.repo_name = new.repo_name,
                         !.webhook_secret = new.webhook_secret,
                         !.channel_id = new.channel_id,
                         !.admin_user_id = new.admin_user_id]
        ELSE row : row \in rows}
  ELSE rows \cup {new}

\* mutant of Matching: WHERE github_username = %s, whatever the repo_id
MatchingAnyRepo(repo_id, username) ==
  {i \in 1..Len(scores) : scores[i].github_username = username}

\* indices of the committed scores rows WHERE repo_id = %s AND github_username = %s
Matching(repo_id, username) ==
  {i \in 1..Len(scores) :
     scores[i].repo_id = repo_id /\ scores[i].github_username = username}

NoResult == -1
NoTxn == [kind |-> "none", rows |-> {}, points |-> 0]

\* conn.commit() of update_score, line 66: the transaction's statement takes
\* effect on the table
ApplyTxn(rows, repo_id, username, txn) ==
  IF txn.kind = "insert"
  THEN Append(rows, [repo_id |-> repo_id, github_username |-> username,
                     points |-> txn.points])
  ELSE [i \in 1..Len(rows) |->
          IF i \in txn.rows THEN [rows[i] EXCEPT !.points = txn.points] ELSE rows[i]]

\* mutant of Closed: conn.close() is left out
ClosedNot(n) == n

\* open store connections of a handler: get_db_connection() and conn.close()
Opened(n) == n + 1
Closed(n) == n - 1

\* ------------------------------------------------------------------ Init
IdleReg == [pc |-> "idle", kind |-> "none", row |-> NoRow]

IdleReq == [pc |-> "idle", at |-> "idle", repo_id |-> 0, cfg |-> NoRow, stale |-> {},
            channel_id |-> "",
            sig |-> NoSignature, payload |-> NoPayload, username |-> "",
            issue |-> NoIssue, api |-> "", points |-> 0, result |-> NoResult,
            txn |-> NoTxn,
            status |-> 0, verified |-> FALSE, writes |-> 0, notified |-> 0,
            conns |-> 0]

NoBoard == [pc |-> "idle", guild_id |-> 0, results |-> << >>]

NoCall == [fn |-> "none", arg |-> << >>, done |-> FALSE, ret |-> << >>]

\* the store is empty and nothing has been called
Started ==
  /\ repositories = {}
  /\ scores = << >>
  /\ scoresUnique \in BOOLEAN
  /\ nextId = 1
  /\ issued = 0
  /\ reg = [c \in Regs |-> IdleReg]
  /\ req = [t \in Threads |-> IdleReq]
  /\ ops = 0
  /\ board = NoBoard
  /\ awarded = [k \in RouteIds \X Users |-> 0]
  /\ lastCommit = [g \in Guilds |-> 0]

Init ==
  /\ Started
  /\ funcall = NoCall

\* -------------------------------------------------------------- register
\* secrets.token_hex(16), line 93: a value never handed out before
TokenHex == issued + 1

\* secrets of tenant id that a committed register call has replaced
Retired(id) ==
  {reg[c].row.webhook_secret : c \in {d \in Regs : reg[d].pc = "done" /\ reg[d].row.id = id}}
    \ {RowOfId(id).webhook_secret}

\* lines 90-108: the statement runs in the call's transaction. It waits while
\* another transaction holds an uncommitted row of the same guild_id. The
\* serial is advanced whether or not the row conflicts.
RegisterExecute(c, g, name, channel, admin) ==
  /\ reg[c].pc = "idle"
  /\ \A d \in Regs : d < c => reg[d].pc # "idle"
  /\ \A d \in Regs : reg[d].pc = "executed" => reg[d].row.guild_id # g
  /\ LET old == RowOfGuild(g)
         new == [id |-> IF old = NoRow THEN nextId ELSE old.id,
                 guild_id |-> g, repo_name |-> name, webhook_secret |-> TokenHex,
                 channel_id |-> channel, admin_user_id |-> admin]
     IN reg' = [reg EXCEPT ![c] = [pc |-> "executed",
                                   kind |-> IF old = NoRow THEN "insert" ELSE "update",
                                   row |-> new]]
  /\ issued' = issued + 1
  /\ nextId' = nextId + 1
  /\ ops < MaxOps
  /\ ops' = ops + 1
  /\ UNCHANGED <<repositories, scores, scoresUnique, req, board, awarded, lastCommit, funcall>>

\* lines 109-123: commit, then the payload URL (row.id) and the secret are
\* sent back to the caller
RegisterCommit(c) ==
  /\ reg[c].pc = "executed"
  /\ repositories' = Upsert(repositories, reg[c].row)
  /\ reg' = [reg EXCEPT ![c].pc = "done"]
  /\ lastCommit' = [lastCommit EXCEPT ![reg[c].row.guild_id] = c]
  /\ UNCHANGED <<scores, scoresUnique, nextId, issued, req, ops, board, awarded, funcall>>

\* -------------------------------------------------------- github_webhook
\* the handler returns or aborts with an HTTP status; its locals are gone,
\* "at" keeps the step it left from
Finish(r, code) ==
  [r EXCEPT !.pc = "done", !.at = r.pc, !.status = code, !.cfg = NoRow,
            !.channel_id = "", !.issue = NoIssue, !.result = NoResult, !.txn = NoTxn]

Respond(t, code) == Finish(req[t], code)

\* lines 158-169: a worker takes the next request and reads the tenant row
\* on a connection it opens and closes.
\* Idle workers are interchangeable: the lowest one takes the request.
Lookup(t, id) ==
  /\ req[t].pc \in {"idle", "done"}
  /\ \A u \in Threads : u < t => req[u].pc # "idle"
  /\ ops < MaxOps
  /\ ops' = ops + 1
  /\ LET repo_config == RowOfId(id)
         fresh == [IdleReq EXCEPT !.repo_id = id,
                                  !.conns = Closed(Opened(IdleReq.conns))]
     IN req' = [req EXCEPT ![t] =
                  IF repo_config = NoRow
                  THEN Finish(fresh, 404)
                  ELSE [fresh EXCEPT !.pc = "verify", !.cfg = repo_config,
                                     !.stale = Retired(id)]]
  /\ UNCHANGED <<repositories, scores, scoresUnique, nextId, issued, reg, board,
                 awarded, lastCommit, funcall>>

\* lines 172-178
VerifySignature(t, signature) ==
  /\ req[t].pc = "verify"
  /\ LET r == [req[t] EXCEPT !.sig = signature]
     IN req' = [req EXCEPT ![t] =
                  IF signature.kind # "sha256"
                  THEN Finish(r, 400)
                  ELSE IF ExpectedSignature(req[t].cfg.webhook_secret) # signature
                  THEN Finish(r, 403)
                  ELSE [r EXCEPT !.pc = "extract", !.verified = TRUE, !.cfg = NoRow,
                                 !.channel_id = req[t].cfg.channel_id]]
  /\ UNCHANGED <<repositories, scores, scoresUnique, nextId, issued, reg, ops, board, awarded, lastCommit, funcall>>

NoEvent == [kind |-> "none", username |-> "", issue |-> NoIssue]
KeyError == [kind |-> "raises", username |-> "", issue |-> NoIssue]

\* mutant of Extract: a closed pull request counts whether merged or not
ExtractIgnoreMerged(data) ==
  IF data.action # "closed" THEN NoEvent
  ELSE IF ~data.has_pr THEN KeyError
  ELSE IF IssueNumberMatch(data.body) = NoIssue THEN NoEvent
  ELSE [kind |-> "event", username |-> data.login,
        issue |-> IssueNumberMatch(data.body)]

\* lines 181-195 on the parsed body: the contributor and the issue number of
\* a scoring event, no event, or the KeyError that data['pull_request']
\* raises when the key is absent
Extract(data) ==
  IF data.action # "closed" THEN NoEvent
  ELSE IF ~data.has_pr THEN KeyError
  ELSE IF ~data.merged THEN NoEvent
  ELSE IF IssueNumberMatch(data.body) = NoIssue THEN NoEvent
  ELSE [kind |-> "event", username |-> data.login,
        issue |-> IssueNumberMatch(data.body)]

\* lines 181-195: no event returns 204, an exception leaves the handler (500)
ExtractEvent(t, data) ==
  /\ req[t].pc = "extract"
  /\ LET r == [req[t] EXCEPT !.payload = data]
         event == Extract(data)
     IN req' = [req EXCEPT ![t] =
                  IF event.kind = "none"
                  THEN Finish(r, 204)
                  ELSE IF event.kind = "raises"
                  THEN Finish(r, 500)
                  ELSE [r EXCEPT !.pc = "score", !.username = event.username,
                                 !.issue = event.issue]]
  /\ UNCHANGED <<repositories, scores, scoresUnique, nextId, issued, reg, ops, board, awarded, lastCommit, funcall>>

\* what requests.get(url) can do: answer with a status and (on 200) labels,
\* or raise
ApiOutcomes ==
  [kind : {"response"}, status : {200}, labels : SUBSET Labels]
  \cup {[kind |-> "response", status |-> 404, labels |-> {}],
        [kind |-> "raises", status |-> 0, labels |-> {}]}

\* get_points_from_pr_labels, lines 71-83, on an answer
GetPointsFromPrLabels(response) ==
  IF response.status # 200 THEN 0 ELSE PointsFromLabels(response.labels)

\* lines 196-199 and 206: the call's outcome, then update_score is entered
\* when points > 0
ScoreEvent(t, outcome) ==
  /\ req[t].pc = "score"
  /\ LET r == [req[t] EXCEPT !.api = outcome.kind]
         points == GetPointsFromPrLabels(outcome)
         scored == outcome.kind = "response" /\ points > 0
     IN /\ req' = [req EXCEPT ![t] =
                     IF outcome.kind = "raises" THEN Finish(r, 500)
                     ELSE IF points > 0
                     THEN [r EXCEPT !.pc = "select", !.points = points, !.issue = NoIssue]
                     ELSE Finish(r, 204)]
        /\ awarded' = IF scored
                      THEN [awarded EXCEPT ![<<req[t].repo_id, req[t].username>>] = @ + points]
                      ELSE awarded
  /\ UNCHANGED <<repositories, scores, scoresUnique, nextId, issued, reg, ops, board,
                 lastCommit, funcall>>

\* ---------------------------------------------------------- update_score
\* lines 56-60: a connection is opened; SELECT points ...; fetchone() takes
\* one of the matching rows
SelectPoints(t) ==
  /\ req[t].pc = "select"
  /\ LET found == Matching(req[t].repo_id, req[t].username)
     IN IF found = {}
        THEN req' = [req EXCEPT ![t].pc = "write", ![t].result = NoResult,
                                ![t].conns = Opened(req[t].conns)]
        ELSE \E i \in found :
               req' = [req EXCEPT ![t].pc = "write", ![t].result = scores[i].points,
                                  ![t].conns = Opened(req[t].conns)]
  /\ UNCHANGED <<repositories, scores, scoresUnique, nextId, issued, reg, ops, board, awarded, lastCommit, funcall>>

\* rows another open transaction has updated and not committed
LockedRows(t) ==
  UNION {req[u].txn.rows : u \in {v \in Threads : v # t /\ req[v].pc = "commit"}}

\* another open transaction has inserted this key and not committed
InsertPending(t) ==
  \E u \in Threads :
    /\ u # t
    /\ req[u].pc = "commit"
    /\ req[u].txn.kind = "insert"
    /\ req[u].repo_id = req[t].repo_id
    /\ req[u].username = req[t].username

\* lines 61-63: UPDATE scores SET points = new_points WHERE ...; it waits for
\* the row locks of other transactions
UpdateRow(t) ==
  /\ req[t].pc = "write"
  /\ req[t].result # NoResult
  /\ LET found == Matching(req[t].repo_id, req[t].username)
         new_points == req[t].result + req[t].points
     IN /\ found \cap LockedRows(t) = {}
        /\ req' = [req EXCEPT ![t].pc = "commit",
                              ![t].txn = [kind |-> "update", rows |-> found,
                                          points |-> new_points]]
  /\ UNCHANGED <<repositories, scores, scoresUnique, nextId, issued, reg, ops, board, awarded, lastCommit, funcall>>

\* lines 64-65: INSERT INTO scores ...; under a unique index it waits for an
\* uncommitted insert of the same key and raises when the key is present (the
\* exception leaves update_score before conn.close())
InsertRow(t) ==
  /\ req[t].pc = "write"
  /\ req[t].result = NoResult
  /\ scoresUnique => ~InsertPending(t)
  /\ req' = [req EXCEPT ![t] =
               IF scoresUnique /\ Matching(req[t].repo_id, req[t].username) # {}
               THEN Respond(t, 500)
               ELSE [req[t] EXCEPT !.pc = "commit",
                                   !.txn = [kind |-> "insert", rows |-> {},
                                            points |-> req[t].points]]]
  /\ UNCHANGED <<repositories, scores, scoresUnique, nextId, issued, reg, ops, board, awarded, lastCommit, funcall>>

\* lines 66-69
CommitScore(t) ==
  /\ req[t].pc = "commit"
  /\ scores' = ApplyTxn(scores, req[t].repo_id, req[t].username, req[t].txn)
  /\ req' = [req EXCEPT ![t].pc = "notify", ![t].txn = NoTxn,
                        ![t].writes = req[t].writes + 1,
                        ![t].conns = Closed(req[t].conns)]
  /\ UNCHANGED <<repositories, scoresUnique, nextId, issued, reg, ops, board,
                 awarded, lastCommit, funcall>>

\* lines 200-206: bot.get_channel finds the channel or returns None
Notify(t, channel) ==
  /\ req[t].pc = "notify"
  /\ req' = [req EXCEPT ![t] =
               [Respond(t, 204) EXCEPT !.notified = IF channel THEN 1 ELSE 0]]
  /\ UNCHANGED <<repositories, scores, scoresUnique, nextId, issued, reg, ops, board, awarded, lastCommit, funcall>>

\* ------------------------------------------------------------ leaderboard
LeaderboardLimit == 10

Min(a, b) == IF a < b THEN a ELSE b

\* mutant of Ordered: ORDER BY s.points ASC
RECURSIVE OrderedAscending(_)
OrderedAscending(ix) ==
  IF ix = {} THEN {<< >>}
  ELSE LET low == {i \in ix : \A j \in ix : scores[i].points <= scores[j].points}
       IN UNION {{<<i>> \o rest : rest \in OrderedAscending(ix \ {i})} : i \in low}

\* the orders ORDER BY s.points DESC can put the rows ix in: a row of the
\* highest points first, rows of equal points in any order
RECURSIVE Ordered(_)
Ordered(ix) ==
  IF ix = {} THEN {<< >>}
  ELSE LET top == {i \in ix : \A j \in ix : scores[i].points >= scores[j].points}
       IN UNION {{<<i>> \o rest : rest \in Ordered(ix \ {i})} : i \in top}

\* lines 132-140
LeaderboardQuery(g) ==
  /\ board.pc = "idle"
  /\ ops < MaxOps
  /\ ops' = ops + 1
  /\ LET joined == {i \in 1..Len(scores) :
                      \E r \in repositories : r.id = scores[i].repo_id /\ r.guild_id = g}
     IN \E f \in Ordered(joined) :
          board' = [pc |-> "fetched", guild_id |-> g,
                    results |-> [k \in 1..Min(LeaderboardLimit, Cardinality(joined)) |->
                                   <<scores[f[k]].github_username, scores[f[k]].points>>]]
  /\ UNCHANGED <<repositories, scores, scoresUnique, nextId, issued, reg, req,
                 awarded, lastCommit, funcall>>

\* lines 142-151: the message is sent
LeaderboardSend ==
  /\ board.pc = "fetched"
  /\ board' = NoBoard
  /\ UNCHANGED <<repositories, scores, scoresUnique, nextId, issued, reg, req, ops,
                 awarded, lastCommit, funcall>>

\* ------------------------------------------------------------------ Next
Next ==
  \/ \E c \in Regs, g \in Guilds, name \in RepoNames, admin \in Admins :
       RegisterExecute(c, g, name, ChannelOf(name), admin)
  \/ \E c \in Regs : RegisterCommit(c)
  \/ \E t \in Threads, id \in RouteIds : Lookup(t, id)
  \/ \E t \in Threads, signature \in Signatures : VerifySignature(t, signature)
  \/ \E t \in Threads, data \in Payloads : ExtractEvent(t, data)
  \/ \E t \in Threads, outcome \in ApiOutcomes : ScoreEvent(t, outcome)
  \/ \E t \in Threads : SelectPoints(t)
  \/ \E t \in Threads : UpdateRow(t)
  \/ \E t \in Threads : InsertRow(t)
  \/ \E t \in Threads : CommitScore(t)
  \/ \E t \in Threads, channel \in BOOLEAN : Notify(t, channel)
  \/ \E g \in Guilds : LeaderboardQuery(g)
  \/ LeaderboardSend

Spec == Init /\ [][Next]_vars

\* the steps the worker thread t takes by itself once it has a request; the
\* return of requests.get (ScoreEvent) is up to the remote server
HandlerStep(t) ==
  \/ \E signature \in Signatures : VerifySignature(t, signature)
  \/ \E data \in Payloads : ExtractEvent(t, data)
  \/ SelectPoints(t)
  \/ UpdateRow(t)
  \/ InsertRow(t)
  \/ CommitScore(t)
  \/ \E channel \in BOOLEAN : Notify(t, channel)

\* Every thread and coroutine keeps running: a step of the program that can
\* be taken is taken. Nothing is assumed of the arrival of requests and
\* commands, nor of the remote server: requests.get(url) at line 74 is given
\* no timeout, so it returns only if the server answers or the connection
\* breaks.
FairSpec ==
  /\ Spec
  /\ \A t \in Threads : WF_vars(HandlerStep(t))
  /\ \A c \in Regs : WF_vars(RegisterCommit(c))
  /\ WF_vars(LeaderboardSend)

\* ------------------------------------- get_points_from_pr_labels by itself
\* label names an issue can carry, in several letter cases
LabelNames == {"hard", "Hard", "HARD", "medium", "Medium", "easy", "EASY", "bug"}

\* data.get('labels', []) of a 200 answer is any set of labels
LabelInit ==
  /\ Started
  /\ funcall \in [fn : {"labels"}, arg : SUBSET LabelNames, done : {FALSE}, ret : {NoResult}]

\* lines 79-83 on the labels of the answer
ScoreLabels ==
  /\ funcall.fn = "labels"
  /\ ~funcall.done
  /\ funcall' = [funcall EXCEPT !.done = TRUE, !.ret = PointsFromLabels(funcall.arg)]
  /\ UNCHANGED <<repositories, scores, scoresUnique, nextId, issued, reg, req, ops, board,
                 awarded, lastCommit>>

LabelNext == ScoreLabels

LabelSpec == LabelInit /\ [][LabelNext]_vars

\* ------------------------------------------- the extraction by itself
\* tokens of a description in this check
MaxBody == 4
Words == {"Fixes", "closes", "RESOLVED", "prefix", "fixing"}
Tokens == Words \cup Whitespace \cup {"#"} \cup DigitRuns

\* a word, one token and an issue reference; a word and an issue reference
Quads == {<<w, s, "#", d>> : w \in Words, s \in Whitespace, d \in DigitRuns}
Triples == {<<w, "#", d>> : w \in Words, d \in DigitRuns}

\* every description of at most MaxBody tokens, and two references in a row
ExtractBodies ==
  UNION {[1..n -> Tokens] : n \in 0..MaxBody}
  \cup {a \o b : a \in Quads \cup Triples, b \in Quads}

ExtractPayloads ==
  [action : {"closed", "opened"}, has_pr : {TRUE}, merged : {TRUE}, login : Users,
   body : ExtractBodies]
  \cup [action : {"closed", "opened"}, has_pr : {TRUE}, merged : {FALSE},
        login : {"alice"}, body : ExtractBodies]
  \cup [action : {"closed", "opened"}, has_pr : {FALSE}, merged : {FALSE},
        login : {""}, body : {<< >>}]

\* request.json of a verified request is any payload
ExtractInit ==
  /\ Started
  /\ funcall \in [fn : {"extract"}, arg : ExtractPayloads, done : {FALSE}, ret : {NoEvent}]

\* lines 181-195 on the payload
ApplyExtract ==
  /\ funcall.fn = "extract"
  /\ ~funcall.done
  /\ funcall' = [funcall EXCEPT !.done = TRUE, !.ret = Extract(funcall.arg)]
  /\ UNCHANGED <<repositories, scores, scoresUnique, nextId, issued, reg, req, ops, board,
                 awarded, lastCommit>>

ExtractNext == ApplyExtract

ExtractSpec == ExtractInit /\ [][ExtractNext]_vars

\* ------------------------------------------- the leaderboard by itself
\* rows of the scores table in this check
MaxRows == 12
Handles == <<"ann", "ben", "cleo", "dan", "eve", "finn", "gus", "hal", "ida", "jo",
             "kim", "lou", "max", "ned">>

\* two guilds that earlier register calls have registered
BoardRepositories ==
  {[id |-> g, guild_id |-> g, repo_name |-> "acme/widget", webhook_secret |-> g,
    channel_id |-> "general", admin_user_id |-> "admin"] : g \in Guilds}

\* scores tables that merged pull requests have left: row i holds 5 * i
\* points, except that row a holds the points of row b; all rows belong to
\* tenant 1, except that row o (if any) belongs to tenant 2
BoardTables ==
  {[i \in 1..MaxRows |->
      [repo_id |-> IF i = o THEN 2 ELSE 1,
       github_username |-> Handles[i],
       points |-> IF i = a THEN 5 * b ELSE 5 * i]] :
     o \in 0..MaxRows, a \in 1..MaxRows, b \in 1..MaxRows}

BoardInit ==
  /\ repositories = BoardRepositories
  /\ scores \in BoardTables
  /\ scoresUnique \in BOOLEAN
  /\ nextId = MaxGuilds + 1
  /\ issued = MaxGuilds
  /\ reg = [c \in Regs |-> IdleReg]
  /\ req = [t \in Threads |-> IdleReq]
  /\ ops = 0
  /\ board = NoBoard
  /\ awarded = [k \in RouteIds \X Users |-> 0]
  /\ lastCommit = [g \in Guilds |-> 0]
  /\ funcall = NoCall

BoardNext ==
  \/ \E g \in Guilds : LeaderboardQuery(g)
  \/ LeaderboardSend

BoardSpec == BoardInit /\ [][BoardNext]_vars

TypeOK ==
  /\ scoresUnique \in BOOLEAN
  /\ \A t \in Threads : req[t].pc \in {"idle", "verify", "extract", "score", "select",
                                       "write", "commit", "notify", "done"}
  /\ \A c \in Regs : reg[c].pc \in {"idle", "executed", "done"}
  /\ nextId \in 1..(MaxRegs + 1)
  /\ ops \in 0..MaxOps

\* ================================================================ claims

\* some update_score call is between its SELECT and its commit
UpdateScoreRunning ==
  \E t \in Threads : req[t].pc \in {"select", "write", "commit"}

\* C1: when the concurrent update_score calls for a key have all finished, the
\* stored points of that key equal the sum of the points they were given (no
\* update is lost).
C1_NoLostUpdate ==
  ~UpdateScoreRunning =>
    \A k \in RouteIds \X Users :
      awarded[k] > 0 =>
        /\ Matching(k[1], k[2]) # {}
        /\ \A i \in Matching(k[1], k[2]) : scores[i].points = awarded[k]

\* C2: a request to a known tenant whose signature header is absent or does
\* not start with sha256= is answered 400, one whose header is well formed but
\* is not the HMAC of the raw body under the secret read from the tenant's row
\* is answered 403, both leave the scores table alone, and a request writes
\* scores only after its own signature check succeeded.
C2_VerifyStep ==
  \A t \in Threads :
    (req[t].pc = "verify" /\ req'[t].pc # "verify") =>
      LET sig == req'[t].sig
          secret == req[t].cfg.webhook_secret
      IN /\ sig.kind \in {"absent", "malformed"} =>
              req'[t].pc = "done" /\ req'[t].status = 400
         /\ (sig.kind = "sha256" /\ (sig.key # secret \/ sig.body # "raw")) =>
              req'[t].pc = "done" /\ req'[t].status = 403
         /\ req'[t].pc = "done" => scores' = scores

C2_WriteStep ==
  \A t \in Threads :
    (req[t].pc \in {"write", "commit"} /\ req'[t].pc # req[t].pc) =>
      req[t].verified /\ req[t].sig.kind = "sha256"

C2_FailsClosed ==
  /\ [][C2_VerifyStep /\ C2_WriteStep]_vars
  /\ [](\A t \in Threads :
          req[t].status \in {400, 403} =>
            req[t].pc = "done" /\ ~req[t].verified /\ req[t].writes = 0
            /\ req[t].notified = 0)

C2_Witness ==
  \E t, u \in Threads :
    /\ req[t].pc = "done" /\ req[t].status = 400 /\ req[t].sig.kind = "absent"
    /\ req[u].pc = "done" /\ req[u].status = 403 /\ req[u].sig.kind = "sha256"

\* C3: a register call for a guild that is already registered stores a secret
\* different from the one it replaces, and a request that read the tenant's row
\* after that commit and is signed with a replaced secret is answered 403 and
\* writes no score.
C3_CommitStep ==
  \A c \in Regs :
    (reg[c].pc = "executed" /\ reg'[c].pc = "done") =>
      \A old \in repositories, new \in repositories' :
        (old.guild_id = reg[c].row.guild_id /\ new.guild_id = old.guild_id) =>
          new.webhook_secret # old.webhook_secret

C3_OldSecretRejected ==
  /\ [][C3_CommitStep]_vars
  /\ [](\A t \in Threads :
          (req[t].sig.kind = "sha256" /\ req[t].sig.key \in req[t].stale) =>
            req[t].pc = "done" /\ req[t].status = 403 /\ req[t].writes = 0)

C3_Witness ==
  \E t \in Threads :
    /\ req[t].pc = "done" /\ req[t].status = 403
    /\ req[t].sig.kind = "sha256" /\ req[t].sig.key \in req[t].stale

\* C4: once a register call has committed a new secret, no request whose
\* signature is valid only under a replaced secret executes a write to the
\* scores table.
C4_RotationImmediate ==
  [][\A t \in Threads :
       (req[t].pc = "write" /\ req'[t].pc = "commit") =>
         req[t].sig.key \notin Retired(req[t].repo_id)]_vars

\* C5: the repositories table holds at most one row per guild_id, and the
\* row's repo_name, webhook_secret and channel_id are those of the register
\* call of that guild that committed last.
C5_OneWholeRowPerGuild ==
  /\ \A a, b \in repositories : a.guild_id = b.guild_id => a = b
  /\ \A row \in repositories :
       /\ lastCommit[row.guild_id] \in Regs
       /\ LET call == reg[lastCommit[row.guild_id]].row
          IN /\ row.repo_name = call.repo_name
             /\ row.webhook_secret = call.webhook_secret
             /\ row.channel_id = call.channel_id
             /\ row.admin_user_id = call.admin_user_id

C5_Witness ==
  \E c, d \in Regs :
    /\ c # d /\ reg[c].pc = "done" /\ reg[d].pc = "done"
    /\ reg[c].row.guild_id = reg[d].row.guild_id
    /\ reg[c].row.repo_name # reg[d].row.repo_name
    /\ \E row \in repositories : row.guild_id = reg[c].row.guild_id

\* C6: the scores table holds at most one row per (repo_id, github_username).
C6_OneRowPerKey ==
  \A i, j \in 1..Len(scores) :
    (scores[i].repo_id = scores[j].repo_id
       /\ scores[i].github_username = scores[j].github_username) => i = j

\* C7: in every step every scores row stays in the table with its key, its
\* points are non-negative and they do not decrease.
C7_PointsNeverDecrease ==
  [][\A i \in 1..Len(scores) :
       /\ i <= Len(scores')
       /\ scores'[i].repo_id = scores[i].repo_id
       /\ scores'[i].github_username = scores[i].github_username
       /\ scores[i].points >= 0
       /\ scores'[i].points >= scores[i].points]_vars

\* C8: a request whose route id matches no row of repositories is answered
\* 404 at the lookup: it verifies no signature, calls no issue metadata,
\* writes neither table and notifies nobody.
C8_LookupStep ==
  \A t \in Threads :
    (/\ req[t].pc \in {"idle", "done"}
     /\ req'[t] # req[t]
     /\ ~\E row \in repositories : row.id = req'[t].repo_id) =>
      /\ req'[t].pc = "done"
      /\ req'[t].status = 404
      /\ scores' = scores
      /\ repositories' = repositories

C8_UnknownTenant404 ==
  /\ [][C8_LookupStep]_vars
  /\ [](\A t \in Threads :
          req[t].status = 404 =>
            /\ req[t].pc = "done" /\ req[t].at = "idle"
            /\ ~req[t].verified /\ req[t].sig = NoSignature /\ req[t].api = ""
            /\ req[t].writes = 0 /\ req[t].notified = 0)

C8_Witness ==
  \E t \in Threads :
    /\ req[t].pc = "done" /\ req[t].status = 404
    /\ repositories # {}
    /\ ~\E row \in repositories : row.id = req[t].repo_id

\* C9: a verified request scored with points > 0 commits exactly one mutation
\* of the scores table, an insert of the row of its tenant and contributor or
\* an update of that row adding exactly its points, and emits at most one
\* notification, after the commit.
C9_CommitStep ==
  \A t \in Threads :
    (req[t].pc = "commit" /\ req'[t].pc = "notify") =>
      LET mine == Matching(req[t].repo_id, req[t].username)
      IN \/ /\ mine = {}
            /\ scores' = Append(scores, [repo_id |-> req[t].repo_id,
                                         github_username |-> req[t].username,
                                         points |-> req[t].points])
         \/ /\ Len(scores') = Len(scores)
            /\ \E i \in mine :
                 /\ scores'[i].points = scores[i].points + req[t].points
                 /\ \A j \in 1..Len(scores) : j # i => scores'[j] = scores[j]

C9_ExactlyOneMutation ==
  /\ [][C9_CommitStep]_vars
  /\ [](\A t \in Threads :
          /\ req[t].notified <= 1
          /\ req[t].notified = 1 => req[t].writes = 1
          /\ (req[t].pc = "done" /\ req[t].points > 0) => req[t].writes = 1)

\* the tokens that are closing keywords in some letter case
ClosingWords == {"Fixes", "fixes"}

\* the description holds a closing keyword followed by "#" and digits
HasClosingReference(body) ==
  \E i \in 1..Len(body) :
    /\ i + 3 <= Len(body)
    /\ body[i] \in ClosingWords
    /\ body[i + 1] = " "
    /\ body[i + 2] = "#"
    /\ body[i + 3] \in {"7", "42"}

\* C10: a correctly signed request that yields no scoring event (action not
\* closed, pull request not merged, no closing keyword with an issue number)
\* or whose computed points are 0 is answered 204, writes no score and emits
\* no notification.
C10_NoEvent204 ==
  \A t \in Threads :
    LET r == req[t]
        no_event == \/ r.payload.action = "opened"
                    \/ r.payload.action = "closed" /\ r.payload.has_pr
                         /\ ~r.payload.merged
                    \/ r.payload.action = "closed" /\ r.payload.has_pr
                         /\ ~HasClosingReference(r.payload.body)
        zero_points == r.at = "score" /\ r.api = "response"
    IN (r.pc = "done" /\ r.verified /\ (no_event \/ zero_points)) =>
         r.status = 204 /\ r.writes = 0 /\ r.notified = 0

C10_Witness ==
  \E t, u \in Threads :
    /\ req[t].pc = "done" /\ req[t].verified /\ req[t].status = 204
    /\ req[t].payload.action = "closed" /\ req[t].payload.merged
    /\ req[t].payload.body = << >>
    /\ req[u].pc = "done" /\ req[u].verified /\ req[u].status = 204
    /\ req[u].at = "score" /\ req[u].api = "response"

\* C11: whatever the issue-metadata call does, a request whose call did not
\* succeed (a status other than 200, or requests.get / response.json()
\* raising) counts as 0 points: it is answered 204 and writes no score.
C11_MetadataFailureYieldsZero ==
  \A t \in Threads :
    (/\ req[t].pc = "done"
     /\ req[t].at = "score"
     /\ req[t].api = "raises") =>
      req[t].status = 204 /\ req[t].writes = 0

\* C12: every request that has started the issue-metadata call is eventually
\* answered, also when the remote server never answers the call.
C12_EveryRequestResponds ==
  \A t \in Threads : (req[t].pc = "score") ~> (req[t].pc = "done")

\* C13: a finished request carries exactly one status, one of 204, 400, 403,
\* 404 and 500; it is 500 only when the request left from a store operation
\* (the tenant lookup or a statement of update_score), never because of the
\* issue-metadata call, the notification or a missing channel.
C13_ServerErrorOnlyFromStore ==
  \A t \in Threads :
    /\ req[t].pc = "done" <=> req[t].status # 0
    /\ req[t].status \in {0, 204, 400, 403, 404, 500}
    /\ req[t].status = 500 =>
         /\ req[t].at \in {"idle", "select", "write", "commit"}
         /\ req[t].api # "raises"

\* the spellings of each scoring label
HardNames == {"hard", "Hard", "HARD"}
MediumNames == {"medium", "Medium"}
EasyNames == {"easy", "EASY"}

\* C14: for every set of labels, get_points_from_pr_labels returns 20 when
\* the set holds 'hard' in any letter case, else 10 when it holds 'medium',
\* else 5 when it holds 'easy', else 0.
C14_LabelPrecedence ==
  (funcall.fn = "labels" /\ funcall.done) =>
    /\ funcall.ret \in {0, 5, 10, 20}
    /\ funcall.ret = IF funcall.arg \cap HardNames # {} THEN 20
                     ELSE IF funcall.arg \cap MediumNames # {} THEN 10
                     ELSE IF funcall.arg \cap EasyNames # {} THEN 5
                     ELSE 0

C14_Witness ==
  /\ funcall.fn = "labels" /\ funcall.done
  /\ funcall.arg = {"HARD", "Medium", "easy", "bug"}
  /\ funcall.ret = 20

\* the words of a description that end with a closing keyword in some
\* letter case
EndingInKeyword == {"Fixes", "closes", "RESOLVED", "prefix"}

\* position i holds a closing keyword followed, after k whitespace characters
\* for some k in gaps, by "#" and digits
ReferenceAt(body, i, gaps) ==
  /\ body[i] \in EndingInKeyword
  /\ \E k \in gaps :
       /\ i + k + 2 <= Len(body)
       /\ \A j \in (i + 1)..(i + k) : body[j] \in {" ", "\t"}
       /\ body[i + k + 1] = "#"
       /\ body[i + k + 2] \in {"7", "42"}

\* the digits of the first such reference, as a number
FirstReference(body, gaps) ==
  LET at == {i \in 1..Len(body) : ReferenceAt(body, i, gaps)}
      first == CHOOSE i \in at : \A j \in at : i <= j
      k == CHOOSE n \in gaps : ReferenceAt(body, first, {n})
  IN IF body[first + k + 2] = "7" THEN 7 ELSE 42

\* a scoring event is extracted exactly from closed, merged pull requests
\* whose description holds a reference, and carries the login and the digits
\* of the first reference
EventIffReference(gaps) ==
  (funcall.fn = "extract" /\ funcall.done) =>
    LET data == funcall.arg
        event == funcall.ret
        qualifies == /\ data.action = "closed"
                     /\ data.has_pr
                     /\ data.merged
                     /\ \E i \in 1..Len(data.body) : ReferenceAt(data.body, i, gaps)
    IN /\ event.kind = "event" <=> qualifies
       /\ event.kind = "event" =>
            /\ event.username = data.login
            /\ event.issue = FirstReference(data.body, gaps)

RowsOfGuild(g) ==
  {i \in 1..Len(scores) :
     \E r \in repositories : r.guild_id = g /\ r.id = scores[i].repo_id}

\* (github_username, points) of scores row i
Entry(i) == <<scores[i].github_username, scores[i].points>>

\* C16: the rows fetched for a guild are distinct rows of that guild's tenant,
\* in order of non-increasing points, as many as the tenant has but at most
\* 10, and every row of the tenant left out has points no greater than the
\* last row fetched.
C16_TopTenOfTenant ==
  board.pc = "fetched" =>
    LET mine == RowsOfGuild(board.guild_id)
        results == board.results
        n == Len(results)
        shown == {i \in mine : \E k \in 1..n : results[k] = Entry(i)}
    IN /\ n <= 10
       /\ n = IF Cardinality(mine) < 10 THEN Cardinality(mine) ELSE 10
       /\ \A k \in 1..n : \E i \in mine : results[k] = Entry(i)
       /\ \A k, l \in 1..n : k < l => results[k] # results[l]
       /\ \A k, l \in 1..n : k < l => results[k][2] >= results[l][2]
       /\ \A i \in mine \ shown : n > 0 /\ scores[i].points <= results[n][2]

\* a tenant with more than 10 rows, and a row left out that has the points of
\* the last row fetched
C16_Witness ==
  /\ board.pc = "fetched"
  /\ Cardinality(RowsOfGuild(board.guild_id)) > 10
  /\ Len(board.results) = 10
  /\ \E i \in RowsOfGuild(board.guild_id) :
       /\ \A k \in 1..10 : board.results[k] # Entry(i)
       /\ scores[i].points = board.results[10][2]

\* C17: a register call for a guild that already has a row is given that
\* row's id, the row keeps its id, no register step changes the scores table,
\* and the scores rows joined to the guild are the same after the commit.
C17_RegisterStep ==
  \A c \in Regs :
    reg'[c] # reg[c] =>
      /\ scores' = scores
      /\ reg[c].pc = "executed" =>
           LET g == reg[c].row.guild_id
           IN \A old \in repositories :
                old.guild_id = g =>
                  /\ reg[c].row.id = old.id
                  /\ \E new \in repositories' : new.guild_id = g /\ new.id = old.id
                  /\ RowsOfGuild(g)' = RowsOfGuild(g)

C17_ReRegisterKeepsScores == [][C17_RegisterStep]_vars

\* a guild registered again after a request signed with its first secret has
\* written a score, and its leaderboard fetched with that score
C17_Witness ==
  \E c \in Regs, t \in Threads :
    /\ reg[c].pc = "done" /\ reg[c].kind = "update"
    /\ req[t].writes = 1 /\ req[t].repo_id = reg[c].row.id
    /\ req[t].sig.key # reg[c].row.webhook_secret
    /\ board.pc = "fetched" /\ board.guild_id = reg[c].row.guild_id
    /\ Len(board.results) > 0

\* C18: a request that is waiting on the issue-metadata call holds no open
\* store connection and no transaction, and a request holds a connection only
\* after its call has returned.
C18_NoConnectionAcrossCall ==
  \A t \in Threads :
    /\ req[t].pc = "score" => req[t].conns = 0 /\ req[t].txn = NoTxn
    /\ req[t].conns > 0 => req[t].api = "response"

\* one request waits on the call while another holds its score-write
\* connection
C18_Witness ==
  \E t, u \in Threads :
    /\ req[t].pc = "score" /\ req[t].conns = 0
    /\ req[u].pc = "commit" /\ req[u].conns = 1

\* C19: a correctly signed request whose payload says 'closed' and lacks the
\* pull_request object is treated as no scoring event: it is answered 204 and
\* writes no score.
C19_MissingFieldsNoEvent ==
  \A t \in Threads :
    (/\ req[t].pc = "done"
     /\ req[t].verified
     /\ req[t].payload.action = "closed"
     /\ ~req[t].payload.has_pr) =>
      req[t].status = 204 /\ req[t].writes = 0

\* C20: a step of a webhook request leaves the repositories table alone, and
\* every scores row that a step creates or changes is written by the commit
\* of a request, has the repo_id the request was routed to and the login of
\* its pull request's author, and had that key before.
C20_Step ==
  /\ req' # req => repositories' = repositories
  /\ Len(scores') >= Len(scores)
  /\ \A i \in 1..Len(scores') :
       (i > Len(scores) \/ scores'[i] # scores[i]) =>
         \E t \in Threads :
           /\ req[t].pc = "commit" /\ req'[t].pc = "notify"
           /\ scores'[i].repo_id = req[t].repo_id
           /\ scores'[i].github_username = req[t].payload.login
           /\ i <= Len(scores) =>
                /\ scores[i].repo_id = req[t].repo_id
                /\ scores[i].github_username = req[t].payload.login

C20_TenantIsolation == [][C20_Step]_vars

\* two tenants hold a score for the same contributor, the second one just
\* committed
C20_Witness ==
  \E i, j \in 1..Len(scores), t \in Threads :
    /\ scores[i].repo_id # scores[j].repo_id
    /\ scores[i].github_username = scores[j].github_username
    /\ req[t].pc = "notify" /\ req[t].repo_id = scores[j].repo_id

====
